---- MODULE Spec2Model ----
(***************************************************************************)
(* A model of the `POST /new_block` webhook handler of the sBTC signer     *)
(* (signer/src/api/new_block.rs): the once-initialised registry address,   *)
(* the event filter, the decode-and-route loop with its classification of  *)
(* storage errors, and the stacks node that redelivers a notification      *)
(* until it is answered with a success status.                             *)
(***************************************************************************)
EXTENDS Integers, Sequences, FiniteSets, Bags, TLC

(***************************************************************************)
(* Bounds of the model.                                                    *)
(***************************************************************************)
\* The largest number of transaction events in one notification.
MaxEvents == 3

(***************************************************************************)
(* Values of the program.                                                  *)
(***************************************************************************)
\* The concurrent invocations of the handler (axum workers).
Workers == {1, 2}

\* StatusCode::OK, StatusCode::INTERNAL_SERVER_ERROR, and "no response yet".
OK == "OK"
INTERNAL_SERVER_ERROR == "INTERNAL_SERVER_ERROR"
NoResponse == "none"

\* The deployer in the signer's configuration, and another principal.
DEPLOYER == "SP_DEPLOYER"
FISHY_ISSUER == "SP_FISHY"
SBTC_REGISTRY_CONTRACT_NAME == "sbtc-registry"

\* QualifiedContractIdentifier::new(issuer, contract_name)
QualifiedContractIdentifier(issuer, name) == <<issuer, name>>

RegistryId == QualifiedContractIdentifier(DEPLOYER, SBTC_REGISTRY_CONTRACT_NAME)
FishyId == QualifiedContractIdentifier(FISHY_ISSUER, SBTC_REGISTRY_CONTRACT_NAME)

\* The five variants of RegistryEvent matched by the handler.
Kinds == {"CompletedDeposit", "WithdrawalAccept", "WithdrawalReject",
          "WithdrawalCreate", "KeyRotation"}

\* A transaction event of a notification.  `value` stands for the Clarity
\* value of the print event: the schema it has ("invalid" matches none) and
\* the identifier it carries (deposit outpoint or withdrawal request id).
TxEvent(c, ce, cid, topic, shape, id, txid) ==
    [committed |-> c, has_contract_event |-> ce, contract_identifier |-> cid,
     topic |-> topic, value |-> [shape |-> shape, id |-> id], txid |-> txid]

\* Events the filter retains: one per schema, one that matches no schema.
RegistryEvents ==
    { TxEvent(TRUE, TRUE, RegistryId, "print", k, 1, 1) : k \in Kinds }
    \cup { TxEvent(TRUE, TRUE, RegistryId, "print", "invalid", 1, 2) }

\* Events the filter must drop: uncommitted, without a contract event, from
\* another contract, or with another topic.
ForeignEvents ==
    { TxEvent(FALSE, TRUE, RegistryId, "print", "KeyRotation", 1, 3),
      TxEvent(TRUE, FALSE, <<>>, "", "invalid", 0, 3),
      TxEvent(TRUE, TRUE, FishyId, "print", "CompletedDeposit", 1, 3),
      TxEvent(TRUE, TRUE, RegistryId, "stx_transfer", "WithdrawalAccept", 1, 3) }

Events == RegistryEvents \cup ForeignEvents

\* All sequences over S of length at most n.
SeqsUpTo(S, n) == UNION { [1..k -> S] : k \in 0..n }

\* A request body: text that serde_json cannot read as a NewBlockEvent, or
\* the JSON of a notification.
UnparsableBody == [parses |-> FALSE, index_block_hash |-> 0, events |-> <<>>]
NotificationBody(block, evs) ==
    [parses |-> TRUE, index_block_hash |-> block, events |-> evs]

Bodies ==
    {UnparsableBody}
    \cup { NotificationBody(1, evs) : evs \in SeqsUpTo(Events, MaxEvents) }

\* One call of the handler: the configuration of its state and its body.
Call(deployer, body) == [deployer |-> deployer, body |-> body]
NoCall == Call(DEPLOYER, UnparsableBody)

\* The tables of the store, one per write operation of DbWrite.
Tables == {"completed_deposit_events", "withdrawal_accept_events",
           "withdrawal_reject_events", "withdrawal_requests",
           "rotate_keys_transactions"}

VARIABLES
    cell,           \* SBTC_REGISTRY_IDENTIFIER: <<>> (unset) or <<identifier>>
    db,             \* the storage infrastructure: "up" or "down"
    store,          \* the rows of each table, as a bag
    pending,        \* per worker: the calls the node has yet to send
    cur,            \* per worker: the call being handled (state, body)
    pc,             \* per worker: position in new_block_handler
    addr,           \* per worker: the local registry_address
    retained,       \* per worker: `events`, as indices into body.events
    i,              \* per worker: position of the for loop in `events`
    decodes,        \* per worker: indices passed to try_new in this attempt
    writes,         \* per worker: storage writes issued in this attempt
    response,       \* per worker: the status code returned
    redelivery,     \* per worker: this attempt is a redelivery
    prevCommitted   \* per worker: indices written successfully in earlier attempts

vars == <<cell, db, store, pending, cur, pc, addr, retained, i, decodes,
          writes, response, redelivery, prevCommitted>>


(***************************************************************************)
(* Pure parts of the handler.                                              *)
(***************************************************************************)
\* FilterCommitted without its test: every event passes.
FilterCommitted_KeepsAll(events, idxs) == idxs

\* .filter(|x| x.committed)
FilterCommitted(events, idxs) ==
    SelectSeq(idxs, LAMBDA k : events[k].committed)

\* FilterMapContractEvent that ends at the first event without a contract
\* event (map_while in place of filter_map).
FilterMapContractEvent_StopsAtNone(events, idxs) ==
    SelectSeq(idxs,
        LAMBDA k : \A n \in 1..Len(idxs) :
                      idxs[n] <= k => events[idxs[n]].has_contract_event)

\* .filter_map(|x| x.contract_event.map(|ev| (ev, x.txid)))
FilterMapContractEvent(events, idxs) ==
    SelectSeq(idxs, LAMBDA k : events[k].has_contract_event)

\* FilterRegistryPrint that tests the topic alone, not the contract.
FilterRegistryPrint_AnyContract(events, idxs, registry_address) ==
    SelectSeq(idxs, LAMBDA k : events[k].topic = "print")

\* FilterRegistryPrint that tests the contract alone, not the topic.
FilterRegistryPrint_AnyTopic(events, idxs, registry_address) ==
    SelectSeq(idxs, LAMBDA k : events[k].contract_identifier = registry_address)

\* .filter(|(ev, _)| &ev.contract_identifier == registry_address && ev.topic == "print")
FilterRegistryPrint(events, idxs, registry_address) ==
    SelectSeq(idxs,
        LAMBDA k : /\ events[k].contract_identifier = registry_address
                   /\ events[k].topic = "print")

\* FilterEvents that hands the retained events over last first.
FilterEvents_Reversed(events, registry_address) ==
    LET kept == FilterRegistryPrint(events,
                    FilterMapContractEvent(events,
                        FilterCommitted(events, [k \in 1..Len(events) |-> k])),
                    registry_address)
    IN  [k \in 1..Len(kept) |-> kept[Len(kept) + 1 - k]]

\* The whole iterator chain, collected: the retained events, as the indices
\* they have in the notification, in the notification's order.
FilterEvents(events, registry_address) ==
    FilterRegistryPrint(events,
        FilterMapContractEvent(events,
            FilterCommitted(events, [k \in 1..Len(events) |-> k])),
        registry_address)

\* TxInfo { txid, block_id }
TxInfo(txid, block_id) == [txid |-> txid, block_id |-> block_id]

\* RegistryEvent::try_new(value, tx_info): one of the five variants, carrying
\* the transaction info, or an error when the value matches no schema.
TryNew(value, tx_info) ==
    IF value.shape \in Kinds
    THEN [ok |-> TRUE, kind |-> value.shape, id |-> value.id,
          txid |-> tx_info.txid, block_id |-> tx_info.block_id]
    ELSE [ok |-> FALSE, kind |-> "DecodeError", id |-> 0,
          txid |-> tx_info.txid, block_id |-> tx_info.block_id]

\* HandlerTable with the arms of the two withdrawal decisions exchanged.
HandlerTable_Swapped(kind) ==
    CASE kind = "CompletedDeposit" -> "completed_deposit_events"
      [] kind = "WithdrawalAccept" -> "withdrawal_reject_events"
      [] kind = "WithdrawalReject" -> "withdrawal_accept_events"
      [] kind = "WithdrawalCreate" -> "withdrawal_requests"
      [] kind = "KeyRotation"      -> "rotate_keys_transactions"

\* The match of the loop body: the handler each variant is given to, named by
\* the table its storage write fills.
HandlerTable(kind) ==
    CASE kind = "CompletedDeposit" -> "completed_deposit_events"
      [] kind = "WithdrawalAccept" -> "withdrawal_accept_events"
      [] kind = "WithdrawalReject" -> "withdrawal_reject_events"
      [] kind = "WithdrawalCreate" -> "withdrawal_requests"
      [] kind = "KeyRotation"      -> "rotate_keys_transactions"

\* event.into(): the stored record of a decoded event with the key its table
\* uses: the deposit outpoint, the withdrawal request id (with the block hash
\* for a withdrawal request), the block id for a key rotation.
RowOf(event) ==
    [key |-> CASE event.kind = "CompletedDeposit" -> <<event.id>>
               [] event.kind = "WithdrawalAccept" -> <<event.id>>
               [] event.kind = "WithdrawalReject" -> <<event.id>>
               [] event.kind = "WithdrawalCreate" -> <<event.id, event.block_id>>
               [] event.kind = "KeyRotation"      -> <<event.block_id>>,
     kind |-> event.kind, txid |-> event.txid, block_id |-> event.block_id]

\* StoreWrite that stores the row again when it is already there.
StoreWrite_Appends(st, table, row) ==
    [st EXCEPT ![table] = @ (+) SetToBag({row})]

\* A successful storage write: the row is in the table afterwards, once; a row
\* that is already there is not stored a second time.
StoreWrite(st, table, row) ==
    IF BagIn(row, st[table])
    THEN st
    ELSE [st EXCEPT ![table] = @ (+) SetToBag({row})]

\* How many copies of row the table holds.
Copies(st, table, row) == CopiesIn(row, st[table])

\* How many rows the table holds.
Rows(st, table) == BagCardinality(st[table])

\* Decoded with the block id read from a value the requests share: the block
\* of the notification of the first request in flight.
Decoded_SharedBlock(w, k) ==
    LET ev == cur[w].body.events[k]
        v  == CHOOSE x \in Workers :
                /\ pc[x] # "idle"
                /\ \A y \in Workers : pc[y] # "idle" => x <= y
    IN  TryNew(ev.value, TxInfo(ev.txid, cur[v].body.index_block_hash))

\* The decoded form of the k-th event of a worker's notification.
Decoded(w, k) ==
    LET ev == cur[w].body.events[k]
    IN  TryNew(ev.value, TxInfo(ev.txid, cur[w].body.index_block_hash))

(***************************************************************************)
(* The state before the first request.                                     *)
(***************************************************************************)
InitCommon ==
    /\ cell = <<>>
    /\ db = "up"
    /\ store = [t \in Tables |-> EmptyBag]
    /\ cur = [w \in Workers |-> NoCall]
    /\ pc = [w \in Workers |-> "idle"]
    /\ addr = [w \in Workers |-> <<>>]
    /\ retained = [w \in Workers |-> <<>>]
    /\ i = [w \in Workers |-> 1]
    /\ decodes = [w \in Workers |-> <<>>]
    /\ writes = [w \in Workers |-> <<>>]
    /\ response = [w \in Workers |-> NoResponse]
    /\ redelivery = [w \in Workers |-> FALSE]
    /\ prevCommitted = [w \in Workers |-> {}]

\* The node has one notification for the first worker, any body.
Init ==
    /\ InitCommon
    /\ \E b \in Bodies :
         pending = [w \in Workers |-> IF w = 1 THEN <<Call(DEPLOYER, b)>> ELSE <<>>]

\* The events of the notifications whose redelivery is followed to its end:
\* two kinds of well-formed event, one that matches no schema, one of another
\* contract.
LiveEvents ==
    { ev \in Events :
        \/ ev.contract_identifier = FishyId
        \/ /\ ev.committed
           /\ ev.contract_identifier = RegistryId
           /\ ev.topic = "print"
           /\ ev.value.shape \in {"CompletedDeposit", "KeyRotation", "invalid"} }

LiveBodies ==
    {UnparsableBody}
    \cup { NotificationBody(1, evs) : evs \in SeqsUpTo(LiveEvents, MaxEvents) }

\* The node has one notification for the first worker, over LiveEvents.
LiveInit ==
    /\ InitCommon
    /\ \E b \in LiveBodies :
         pending = [w \in Workers |-> IF w = 1 THEN <<Call(DEPLOYER, b)>> ELSE <<>>]

\* The deployers a configuration can name.
Deployers == {DEPLOYER, FISHY_ISSUER}

\* The events of the notifications of the runs with several calls: a key
\* rotation of the registry of DEPLOYER, an event of it that matches no
\* schema, and a deposit of the registry of FISHY_ISSUER.
FewEvents ==
    { ev \in Events :
        \/ ev.contract_identifier = FishyId
        \/ /\ ev.committed
           /\ ev.contract_identifier = RegistryId
           /\ ev.topic = "print"
           /\ ev.value.shape \in {"KeyRotation", "invalid"} }

\* Two calls of the handler, one after the other, in one process: the first
\* with an unparsable body or at most one event, the second with any list of
\* FewEvents; each with a configuration of its own.
SeqInit ==
    /\ InitCommon
    /\ \E d1 \in Deployers, d2 \in Deployers :
       \E b1 \in {UnparsableBody} \cup { NotificationBody(1, evs) : evs \in SeqsUpTo(FewEvents, 1) } :
       \E b2 \in { NotificationBody(2, evs) : evs \in SeqsUpTo(FewEvents, MaxEvents) } :
         pending = [w \in Workers |->
                      IF w = 1 THEN <<Call(d1, b1), Call(d2, b2)>> ELSE <<>>]

\* The event lists of the notifications handled concurrently: two well-formed
\* events, an event that matches no schema before a well-formed one, and an
\* event of the registry of FISHY_ISSUER before one of the registry of DEPLOYER.
ConcLists ==
    { <<TxEvent(TRUE, TRUE, RegistryId, "print", "KeyRotation", 1, 1),
        TxEvent(TRUE, TRUE, RegistryId, "print", "CompletedDeposit", 1, 2)>>,
      <<TxEvent(TRUE, TRUE, RegistryId, "print", "invalid", 1, 2),
        TxEvent(TRUE, TRUE, RegistryId, "print", "KeyRotation", 1, 1)>>,
      <<TxEvent(TRUE, TRUE, FishyId, "print", "CompletedDeposit", 1, 3),
        TxEvent(TRUE, TRUE, RegistryId, "print", "KeyRotation", 1, 1)>> }

ConcBodies(block) ==
    {UnparsableBody} \cup { NotificationBody(block, evs) : evs \in ConcLists }

\* Two requests reach the handler at the same time, before the address is
\* initialised: each worker has one notification, of a block of its own, and
\* a configuration of its own.
ConcInit ==
    /\ InitCommon
    /\ \E d2 \in Deployers :
       \E b1 \in ConcBodies(1), b2 \in ConcBodies(2) :
         pending = [w \in Workers |->
                      IF w = 1 THEN <<Call(DEPLOYER, b1)>> ELSE <<Call(d2, b2)>>]

(***************************************************************************)
(* The stacks node (event dispatcher).                                     *)
(***************************************************************************)
\* The state of a worker at the entry of new_block_handler.
Enter(w, call, again, committed) ==
    /\ cur' = [cur EXCEPT ![w] = call]
    /\ pc' = [pc EXCEPT ![w] = "called"]
    /\ addr' = [addr EXCEPT ![w] = <<>>]
    /\ retained' = [retained EXCEPT ![w] = <<>>]
    /\ i' = [i EXCEPT ![w] = 1]
    /\ decodes' = [decodes EXCEPT ![w] = <<>>]
    /\ writes' = [writes EXCEPT ![w] = <<>>]
    /\ response' = [response EXCEPT ![w] = NoResponse]
    /\ redelivery' = [redelivery EXCEPT ![w] = again]
    /\ prevCommitted' = [prevCommitted EXCEPT ![w] = committed]

\* The node sends its next notification, once the previous one was answered
\* with a success status.
Deliver(w) ==
    /\ pc[w] \in {"idle", "responded"}
    /\ pc[w] = "responded" => response[w] = OK
    /\ pending[w] # <<>>
    /\ Enter(w, Head(pending[w]), FALSE, {})
    /\ pending' = [pending EXCEPT ![w] = Tail(@)]
    /\ UNCHANGED <<cell, db, store>>

\* The indices whose write returned Ok in the attempt so far.
CommittedNow(w) ==
    { writes[w][n].idx : n \in { m \in 1..Len(writes[w]) : writes[w][m].outcome = "Ok" } }

\* The response was not a success, or none came: the node sends the same
\* payload again.
Redeliver(w) ==
    /\ pc[w] \in {"responded", "abandoned"}
    /\ response[w] # OK
    /\ Enter(w, cur[w], TRUE, prevCommitted[w] \cup CommittedNow(w))
    /\ UNCHANGED <<cell, db, store, pending>>

(***************************************************************************)
(* The storage infrastructure.                                             *)
(***************************************************************************)
DbFail ==
    /\ db = "up"
    /\ db' = "down"
    /\ UNCHANGED <<cell, store, pending, cur, pc, addr, retained, i, decodes,
                   writes, response, redelivery, prevCommitted>>

DbRecover ==
    /\ db = "down"
    /\ db' = "up"
    /\ UNCHANGED <<cell, store, pending, cur, pc, addr, retained, i, decodes,
                   writes, response, redelivery, prevCommitted>>

(***************************************************************************)
(* new_block_handler, step by step.                                        *)
(***************************************************************************)
\* return <status>
Respond(w, status) ==
    /\ response' = [response EXCEPT ![w] = status]
    /\ pc' = [pc EXCEPT ![w] = "responded"]

\* ResolveAddress that derives the address anew from the configuration of
\* every call and stores it.
ResolveAddress_Recomputes(w) ==
    /\ pc[w] = "called"
    /\ cell' = <<QualifiedContractIdentifier(cur[w].deployer,
                                             SBTC_REGISTRY_CONTRACT_NAME)>>
    /\ addr' = [addr EXCEPT ![w] = cell'[1]]
    /\ pc' = [pc EXCEPT ![w] = "resolved"]
    /\ UNCHANGED <<db, store, pending, cur, retained, i, decodes, writes,
                   response, redelivery, prevCommitted>>

\* ResolveAddress that initialises the cell once but goes on with the address
\* derived from the configuration of its own call.
ResolveAddress_UsesOwn(w) ==
    /\ pc[w] = "called"
    /\ cell' = IF cell = <<>>
               THEN <<QualifiedContractIdentifier(cur[w].deployer,
                                                  SBTC_REGISTRY_CONTRACT_NAME)>>
               ELSE cell
    /\ addr' = [addr EXCEPT ![w] =
                  QualifiedContractIdentifier(cur[w].deployer,
                                              SBTC_REGISTRY_CONTRACT_NAME)]
    /\ pc' = [pc EXCEPT ![w] = "resolved"]
    /\ UNCHANGED <<db, store, pending, cur, retained, i, decodes, writes,
                   response, redelivery, prevCommitted>>

\* ResolveAddress of a handler that derives the address only once it has a
\* notification with events in hand.
ResolveAddress_Lazy(w) ==
    /\ pc[w] = "called"
    /\ cell' = IF cell = <<>> /\ cur[w].body.parses /\ cur[w].body.events # <<>>
               THEN <<QualifiedContractIdentifier(cur[w].deployer,
                                                  SBTC_REGISTRY_CONTRACT_NAME)>>
               ELSE cell
    /\ addr' = [addr EXCEPT ![w] = IF cell' = <<>> THEN <<>> ELSE cell'[1]]
    /\ pc' = [pc EXCEPT ![w] = "resolved"]
    /\ UNCHANGED <<db, store, pending, cur, retained, i, decodes, writes,
                   response, redelivery, prevCommitted>>

\* SBTC_REGISTRY_IDENTIFIER.get_or_init(|| ...)
ResolveAddress(w) ==
    /\ pc[w] = "called"
    /\ cell' = IF cell = <<>>
               THEN <<QualifiedContractIdentifier(cur[w].deployer,
                                                  SBTC_REGISTRY_CONTRACT_NAME)>>
               ELSE cell
    /\ addr' = [addr EXCEPT ![w] = cell'[1]]
    /\ pc' = [pc EXCEPT ![w] = "resolved"]
    /\ UNCHANGED <<db, store, pending, cur, retained, i, decodes, writes,
                   response, redelivery, prevCommitted>>

\* DeserializeErr that answers with a server error.
DeserializeErr_Retries(w) ==
    /\ pc[w] = "resolved"
    /\ ~cur[w].body.parses
    /\ Respond(w, INTERNAL_SERVER_ERROR)
    /\ UNCHANGED <<cell, db, store, pending, cur, addr, retained, i, decodes,
                   writes, redelivery, prevCommitted>>

\* serde_json::from_str(&body): Err
DeserializeErr(w) ==
    /\ pc[w] = "resolved"
    /\ ~cur[w].body.parses
    /\ Respond(w, OK)
    /\ UNCHANGED <<cell, db, store, pending, cur, addr, retained, i, decodes,
                   writes, redelivery, prevCommitted>>

\* serde_json::from_str(&body): Ok
DeserializeOk(w) ==
    /\ pc[w] = "resolved"
    /\ cur[w].body.parses
    /\ pc' = [pc EXCEPT ![w] = "deserialized"]
    /\ UNCHANGED <<cell, db, store, pending, cur, addr, retained, i, decodes,
                   writes, response, redelivery, prevCommitted>>

\* Filter that answers an empty list of retained events with a server error.
Filter_EmptyRetries(w) ==
    /\ pc[w] = "deserialized"
    /\ retained' = [retained EXCEPT ![w] = FilterEvents(cur[w].body.events, addr[w])]
    /\ IF retained'[w] = <<>>
       THEN Respond(w, INTERNAL_SERVER_ERROR)
       ELSE /\ pc' = [pc EXCEPT ![w] = "loop"]
            /\ UNCHANGED response
    /\ UNCHANGED <<cell, db, store, pending, cur, addr, i, decodes, writes,
                   redelivery, prevCommitted>>

\* let events = ... .collect(); if events.is_empty() { return OK }
Filter(w) ==
    /\ pc[w] = "deserialized"
    /\ retained' = [retained EXCEPT ![w] = FilterEvents(cur[w].body.events, addr[w])]
    /\ IF retained'[w] = <<>>
       THEN Respond(w, OK)
       ELSE /\ pc' = [pc EXCEPT ![w] = "loop"]
            /\ UNCHANGED response
    /\ UNCHANGED <<cell, db, store, pending, cur, addr, i, decodes, writes,
                   redelivery, prevCommitted>>

\* DecodeErr that leaves the loop (return OK) instead of `continue`.
DecodeErr_Aborts(w) ==
    /\ pc[w] = "loop"
    /\ i[w] <= Len(retained[w])
    /\ ~Decoded(w, retained[w][i[w]]).ok
    /\ decodes' = [decodes EXCEPT ![w] = Append(@, retained[w][i[w]])]
    /\ Respond(w, OK)
    /\ UNCHANGED <<cell, db, store, pending, cur, addr, retained, i, writes,
                   redelivery, prevCommitted>>

\* DecodeErr that lets the error escape (an unwrap of the decoded event): the
\* call ends in a panic, without a status code.
DecodeErr_Panics(w) ==
    /\ pc[w] = "loop"
    /\ i[w] <= Len(retained[w])
    /\ ~Decoded(w, retained[w][i[w]]).ok
    /\ decodes' = [decodes EXCEPT ![w] = Append(@, retained[w][i[w]])]
    /\ pc' = [pc EXCEPT ![w] = "panicked"]
    /\ UNCHANGED <<cell, db, store, pending, cur, addr, retained, i, writes,
                   response, redelivery, prevCommitted>>

\* RegistryEvent::try_new: Err => continue
DecodeErr(w) ==
    /\ pc[w] = "loop"
    /\ i[w] <= Len(retained[w])
    /\ ~Decoded(w, retained[w][i[w]]).ok
    /\ decodes' = [decodes EXCEPT ![w] = Append(@, retained[w][i[w]])]
    /\ i' = [i EXCEPT ![w] = @ + 1]
    /\ UNCHANGED <<cell, db, store, pending, cur, pc, addr, retained, writes,
                   response, redelivery, prevCommitted>>

\* DecodeOk of a handler that remembers what it wrote: an event written in an
\* earlier attempt is passed over without a storage write.
DecodeOk_SkipsWritten(w) ==
    /\ pc[w] = "loop"
    /\ i[w] <= Len(retained[w])
    /\ Decoded(w, retained[w][i[w]]).ok
    /\ decodes' = [decodes EXCEPT ![w] = Append(@, retained[w][i[w]])]
    /\ IF retained[w][i[w]] \in prevCommitted[w]
       THEN /\ i' = [i EXCEPT ![w] = @ + 1]
            /\ UNCHANGED <<pc, writes>>
       ELSE /\ LET event == Decoded(w, retained[w][i[w]])
               IN  writes' = [writes EXCEPT ![w] =
                       Append(@, [idx |-> retained[w][i[w]],
                                  table |-> HandlerTable(event.kind),
                                  row |-> RowOf(event),
                                  outcome |-> "pending"])]
            /\ pc' = [pc EXCEPT ![w] = "writing"]
            /\ UNCHANGED i
    /\ UNCHANGED <<cell, db, store, pending, cur, addr, retained, response,
                   redelivery, prevCommitted>>

\* RegistryEvent::try_new: Ok(variant) => handle_<variant>(&api.ctx, event.into()),
\* up to the await of the storage write.
DecodeOk(w) ==
    /\ pc[w] = "loop"
    /\ i[w] <= Len(retained[w])
    /\ Decoded(w, retained[w][i[w]]).ok
    /\ LET event == Decoded(w, retained[w][i[w]])
       IN  writes' = [writes EXCEPT ![w] =
               Append(@, [idx |-> retained[w][i[w]],
                          table |-> HandlerTable(event.kind),
                          row |-> RowOf(event),
                          outcome |-> "pending"])]
    /\ decodes' = [decodes EXCEPT ![w] = Append(@, retained[w][i[w]])]
    /\ pc' = [pc EXCEPT ![w] = "writing"]
    /\ UNCHANGED <<cell, db, store, pending, cur, addr, retained, i, response,
                   redelivery, prevCommitted>>

\* The write in flight gets its outcome.
Returned(w, outcome) ==
    writes' = [writes EXCEPT ![w][Len(writes[w])].outcome = outcome]

\* The storage write returns Ok(()): next event.
WriteOk(w) ==
    /\ pc[w] = "writing"
    /\ LET wr == writes[w][Len(writes[w])]
       IN  store' = StoreWrite(store, wr.table, wr.row)
    /\ Returned(w, "Ok")
    /\ i' = [i EXCEPT ![w] = @ + 1]
    /\ pc' = [pc EXCEPT ![w] = "loop"]
    /\ UNCHANGED <<cell, db, pending, cur, addr, retained, decodes, response,
                   redelivery, prevCommitted>>

\* WriteSqlxError that logs the error and goes on with the next event.
WriteSqlxError_Continues(w) ==
    /\ pc[w] = "writing"
    /\ db = "down"
    /\ Returned(w, "SqlxQuery")
    /\ i' = [i EXCEPT ![w] = @ + 1]
    /\ pc' = [pc EXCEPT ![w] = "loop"]
    /\ UNCHANGED <<cell, db, store, pending, cur, addr, retained, decodes,
                   response, redelivery, prevCommitted>>

\* WriteSqlxError that takes the rows written earlier in the attempt out of
\* the store again before it answers.
WriteSqlxError_RollsBack(w) ==
    /\ pc[w] = "writing"
    /\ db = "down"
    /\ Returned(w, "SqlxQuery")
    /\ store' = [t \in Tables |->
                   store[t] (-) SetToBag({ writes[w][n].row :
                                   n \in { m \in 1..Len(writes[w]) :
                                             /\ writes[w][m].outcome = "Ok"
                                             /\ writes[w][m].table = t } })]
    /\ Respond(w, INTERNAL_SERVER_ERROR)
    /\ UNCHANGED <<cell, db, pending, cur, addr, retained, i, decodes,
                   redelivery, prevCommitted>>

\* WriteSqlxError that notes the status 500 and lets the loop go on.
WriteSqlxError_FlagsOnly(w) ==
    /\ pc[w] = "writing"
    /\ db = "down"
    /\ Returned(w, "SqlxQuery")
    /\ response' = [response EXCEPT ![w] = INTERNAL_SERVER_ERROR]
    /\ i' = [i EXCEPT ![w] = @ + 1]
    /\ pc' = [pc EXCEPT ![w] = "loop"]
    /\ UNCHANGED <<cell, db, store, pending, cur, addr, retained, decodes,
                   redelivery, prevCommitted>>

\* WriteSqlxError that answers 200 when an earlier event of the attempt was
\* skipped for a decode error or failed with another write error.
WriteSqlxError_UnlessFailedBefore(w) ==
    /\ pc[w] = "writing"
    /\ db = "down"
    /\ Returned(w, "SqlxQuery")
    /\ Respond(w, IF \/ Len(decodes[w]) > Len(writes[w])
                     \/ \E n \in 1..Len(writes[w]) : writes[w][n].outcome = "Other"
                  THEN OK
                  ELSE INTERNAL_SERVER_ERROR)
    /\ UNCHANGED <<cell, db, store, pending, cur, addr, retained, i, decodes,
                   redelivery, prevCommitted>>

\* The storage write returns Err(Error::SqlxQuery(_)): return 500.
WriteSqlxError(w) ==
    /\ pc[w] = "writing"
    /\ db = "down"
    /\ Returned(w, "SqlxQuery")
    /\ Respond(w, INTERNAL_SERVER_ERROR)
    /\ UNCHANGED <<cell, db, store, pending, cur, addr, retained, i, decodes,
                   redelivery, prevCommitted>>

\* WriteOtherError that asks for a retry, as for a SqlxQuery error.
WriteOtherError_Retries(w) ==
    /\ pc[w] = "writing"
    /\ Returned(w, "Other")
    /\ Respond(w, INTERNAL_SERVER_ERROR)
    /\ UNCHANGED <<cell, db, store, pending, cur, addr, retained, i, decodes,
                   redelivery, prevCommitted>>

\* WriteOtherError that gives up on the rest of the block (return OK).
WriteOtherError_Stops(w) ==
    /\ pc[w] = "writing"
    /\ Returned(w, "Other")
    /\ Respond(w, OK)
    /\ UNCHANGED <<cell, db, store, pending, cur, addr, retained, i, decodes,
                   redelivery, prevCommitted>>

\* WriteOtherError that tries the same event again.
WriteOtherError_RetriesLocally(w) ==
    /\ pc[w] = "writing"
    /\ Returned(w, "Other")
    /\ pc' = [pc EXCEPT ![w] = "loop"]
    /\ UNCHANGED <<cell, db, store, pending, cur, addr, retained, i, decodes,
                   response, redelivery, prevCommitted>>

\* The storage write returns another Err: log, next event.
WriteOtherError(w) ==
    /\ pc[w] = "writing"
    /\ Returned(w, "Other")
    /\ i' = [i EXCEPT ![w] = @ + 1]
    /\ pc' = [pc EXCEPT ![w] = "loop"]
    /\ UNCHANGED <<cell, db, store, pending, cur, addr, retained, decodes,
                   response, redelivery, prevCommitted>>

\* LoopDone that answers with a server error.
LoopDone_Retries(w) ==
    /\ pc[w] = "loop"
    /\ i[w] > Len(retained[w])
    /\ Respond(w, INTERNAL_SERVER_ERROR)
    /\ UNCHANGED <<cell, db, store, pending, cur, addr, retained, i, decodes,
                   writes, redelivery, prevCommitted>>

\* LoopDone that answers from a status the requests share: 500 when a write
\* of any request in flight failed transiently.
LoopDone_SharedStatus(w) ==
    /\ pc[w] = "loop"
    /\ i[w] > Len(retained[w])
    /\ Respond(w, IF \E v \in Workers : \E n \in 1..Len(writes[v]) :
                        writes[v][n].outcome = "SqlxQuery"
                  THEN INTERNAL_SERVER_ERROR
                  ELSE OK)
    /\ UNCHANGED <<cell, db, store, pending, cur, addr, retained, i, decodes,
                   writes, redelivery, prevCommitted>>

\* The for loop is over: StatusCode::OK
LoopDone(w) ==
    /\ pc[w] = "loop"
    /\ i[w] > Len(retained[w])
    /\ Respond(w, OK)
    /\ UNCHANGED <<cell, db, store, pending, cur, addr, retained, i, decodes,
                   writes, redelivery, prevCommitted>>

\* The caller drops the request while the handler waits for a storage write
\* (a timeout, a closed connection): the handler runs no further; the write
\* in flight has taken effect or has not.
Abandon(w) ==
    /\ pc[w] = "writing"
    /\ \E applied \in BOOLEAN :
         LET wr == writes[w][Len(writes[w])]
         IN  /\ store' = IF applied THEN StoreWrite(store, wr.table, wr.row) ELSE store
             /\ Returned(w, IF applied THEN "Ok" ELSE "Dropped")
    /\ pc' = [pc EXCEPT ![w] = "abandoned"]
    /\ UNCHANGED <<cell, db, pending, cur, addr, retained, i, decodes, response,
                   redelivery, prevCommitted>>

Next ==
    \/ DbFail
    \/ DbRecover
    \/ \E w \in Workers :
        \/ Deliver(w)
        \/ Redeliver(w)
        \/ ResolveAddress(w)
        \/ DeserializeErr(w)
        \/ DeserializeOk(w)
        \/ Filter(w)
        \/ DecodeErr(w)
        \/ DecodeOk(w)
        \/ WriteOk(w)
        \/ WriteSqlxError(w)
        \/ WriteOtherError(w)
        \/ LoopDone(w)

Spec == Init /\ [][Next]_vars

\* Several calls in sequence, with configurations that may differ.
SeqSpec == SeqInit /\ [][Next]_vars

\* Two requests handled concurrently, their steps interleaved.
ConcSpec == ConcInit /\ [][Next]_vars

\* The handler, the node, and a caller that may drop a request in flight.
NextOrAbandon == Next \/ \E w \in Workers : Abandon(w)

AbandonSpec == LiveInit /\ [][NextOrAbandon]_vars

\* The handler and the node on the notifications of LiveBodies, with every
\* run of redeliveries, fair or not.
RetrySpec == LiveInit /\ [][Next]_vars

\* One step of a worker's request: the node's delivery or the handler's code.
WorkerStep(w) ==
    \/ Deliver(w)
    \/ Redeliver(w)
    \/ ResolveAddress(w)
    \/ DeserializeErr(w)
    \/ DeserializeOk(w)
    \/ Filter(w)
    \/ DecodeErr(w)
    \/ DecodeOk(w)
    \/ WriteOk(w)
    \/ WriteSqlxError(w)
    \/ WriteOtherError(w)
    \/ LoopDone(w)

\* The runtime keeps running the handler, a storage call returns, and the node
\* sends again one second after a response that is not a success.
LiveSpec == LiveInit /\ [][Next]_vars /\ \A w \in Workers : WF_vars(WorkerStep(w))

(***************************************************************************)
(* Vocabulary of the properties.                                           *)
(***************************************************************************)
Range(s) == { s[n] : n \in 1..Len(s) }

Responded(w) == pc[w] = "responded"

\* The events of the notification a worker handles.
EventsOf(w) == cur[w].body.events

\* The writes of the attempt that returned the transient storage error.
Transient(w) == { n \in 1..Len(writes[w]) : writes[w][n].outcome = "SqlxQuery" }

\* The indices a storage write was issued for in this attempt.
Written(w) == { writes[w][n].idx : n \in 1..Len(writes[w]) }

StoreEmpty == \A t \in Tables : Rows(store, t) = 0

\* The kind of record each table holds.
KindOfTable(t) ==
    CASE t = "completed_deposit_events" -> "CompletedDeposit"
      [] t = "withdrawal_accept_events" -> "WithdrawalAccept"
      [] t = "withdrawal_reject_events" -> "WithdrawalReject"
      [] t = "withdrawal_requests"      -> "WithdrawalCreate"
      [] t = "rotate_keys_transactions" -> "KeyRotation"

(***************************************************************************)
(* C1: when the storage write for the N-th retained event returns the      *)
(* transient storage error (Error::SqlxQuery), the handler answers 500,    *)
(* that write is the last one of the attempt, no event after it is decoded *)
(* or written in the attempt, and the rows of the earlier successful       *)
(* writes are in the store.                                                *)
(***************************************************************************)
C1_TransientErrorStopsAttempt ==
    \A w \in Workers : \A n \in Transient(w) :
        /\ Responded(w)
        /\ response[w] = INTERNAL_SERVER_ERROR
        /\ n = Len(writes[w])
        /\ writes[w][n].idx = retained[w][i[w]]
        /\ \A k \in Range(decodes[w]) \cup Written(w) : k <= writes[w][n].idx
        /\ \A m \in 1..(n - 1) :
              writes[w][m].outcome = "Ok"
                  => Copies(store, writes[w][m].table, writes[w][m].row) = 1

\* A transient error on the second write, after a committed first event and
\* before a third retained event.
C1_Witness ==
    \E w \in Workers :
        /\ Responded(w)
        /\ response[w] = INTERNAL_SERVER_ERROR
        /\ Len(writes[w]) = 2
        /\ writes[w][1].outcome = "Ok"
        /\ writes[w][2].outcome = "SqlxQuery"
        /\ i[w] < Len(retained[w])

(***************************************************************************)
(* C2: the response of a finished attempt is 500 if and only if a storage  *)
(* write of that attempt returned the transient storage error; in every    *)
(* other case (unparsable body, nothing retained, decode errors, other     *)
(* write errors, all writes successful) it is 200.                         *)
(***************************************************************************)
C2_RetryIffTransientError ==
    \A w \in Workers :
        Responded(w) =>
            /\ response[w] \in {OK, INTERNAL_SERVER_ERROR}
            /\ response[w] = INTERNAL_SERVER_ERROR <=> Transient(w) # {}

\* An attempt with a decode error and a non-transient write error, answered 200.
C2_Witness ==
    \E w \in Workers :
        /\ Responded(w)
        /\ response[w] = OK
        /\ Len(decodes[w]) > Len(writes[w])
        /\ \E n \in 1..Len(writes[w]) : writes[w][n].outcome = "Other"

(***************************************************************************)
(* C3: an event whose contract identifier is not the configured registry   *)
(* address is never decoded and never written; a notification without any  *)
(* event of the registry contract is answered 200 with no decode and no    *)
(* storage write, and the store stays as it was.                           *)
(***************************************************************************)
FromRegistry(ev) == ev.has_contract_event /\ ev.contract_identifier = RegistryId

C3_ForeignContractNeverProcessed ==
    \A w \in Workers :
        /\ \A k \in Range(decodes[w]) \cup Written(w) : FromRegistry(EventsOf(w)[k])
        /\ (pc[w] # "idle" /\ cur[w].body.parses
              /\ \A k \in 1..Len(EventsOf(w)) : ~FromRegistry(EventsOf(w)[k]))
           => /\ decodes[w] = <<>>
              /\ writes[w] = <<>>
              /\ StoreEmpty
              /\ Responded(w) => response[w] = OK

\* A finished request whose events all carry another contract's identifier,
\* one of them committed and with the topic "print".
C3_Witness ==
    \E w \in Workers :
        /\ Responded(w)
        /\ cur[w].body.parses
        /\ Len(EventsOf(w)) >= 2
        /\ \A k \in 1..Len(EventsOf(w)) :
              /\ EventsOf(w)[k].has_contract_event
              /\ EventsOf(w)[k].contract_identifier = FishyId
              /\ EventsOf(w)[k].committed
              /\ EventsOf(w)[k].topic = "print"

(***************************************************************************)
(* C4: an event with committed = false is never decoded and never causes   *)
(* a storage write, also when it carries the registry address and the      *)
(* topic "print".                                                          *)
(***************************************************************************)
C4_UncommittedNeverProcessed ==
    \A w \in Workers :
        \A k \in Range(decodes[w]) \cup Written(w) : EventsOf(w)[k].committed

\* A finished request that decoded an event and held an uncommitted print
\* event of the registry contract with a well-formed value.
C4_Witness ==
    \E w \in Workers :
        /\ Responded(w)
        /\ decodes[w] # <<>>
        /\ \E k \in 1..Len(EventsOf(w)) :
              /\ ~EventsOf(w)[k].committed
              /\ FromRegistry(EventsOf(w)[k])
              /\ EventsOf(w)[k].topic = "print"
              /\ EventsOf(w)[k].value.shape \in Kinds

(***************************************************************************)
(* C5: a body that does not deserialize is answered 200; the handler       *)
(* returns right after the failed deserialization, with no decode and no   *)
(* storage write, and the store stays as it was.                           *)
(***************************************************************************)
C5_UnparsableBodyAccepted ==
    \A w \in Workers :
        (pc[w] # "idle" /\ ~cur[w].body.parses) =>
            /\ pc[w] \in {"called", "resolved", "responded"}
            /\ decodes[w] = <<>>
            /\ writes[w] = <<>>
            /\ StoreEmpty
            /\ Responded(w) => response[w] = OK

C5_Witness ==
    \E w \in Workers : Responded(w) /\ ~cur[w].body.parses /\ response[w] = OK

(***************************************************************************)
(* C6: a decode error concerns its event alone: the event causes no        *)
(* storage write, the loop goes on (when the attempt ends without a        *)
(* transient storage error every retained event was decoded, in order, and *)
(* the answer is 200), and a notification of one schema-invalid event      *)
(* followed by one valid event issues exactly one storage write, the valid *)
(* event's, and is answered 200 with one stored row when that write        *)
(* succeeds.                                                               *)
(***************************************************************************)
DecodeFails(w, k) == ~Decoded(w, k).ok

InvalidThenValid(w) ==
    /\ cur[w].body.parses
    /\ Len(EventsOf(w)) = 2
    /\ retained[w] = <<1, 2>>
    /\ DecodeFails(w, 1)
    /\ ~DecodeFails(w, 2)

C6_DecodeErrorIsolated ==
    \A w \in Workers :
        /\ \A k \in Range(decodes[w]) : DecodeFails(w, k) => k \notin Written(w)
        /\ (Responded(w) /\ Transient(w) = {}) =>
              /\ decodes[w] = retained[w]
              /\ response[w] = OK
        /\ (Responded(w) /\ InvalidThenValid(w)) =>
              /\ Len(writes[w]) = 1
              /\ writes[w][1].idx = 2
              /\ writes[w][1].outcome = "Ok" =>
                    /\ response[w] = OK
                    /\ \A t \in Tables :
                          Rows(store, t) = IF t = writes[w][1].table THEN 1 ELSE 0

\* The first delivery of an invalid event followed by a key rotation, answered
\* 200 with the key rotation written.
C6_Witness ==
    \E w \in Workers :
        /\ Responded(w)
        /\ ~redelivery[w]
        /\ InvalidThenValid(w)
        /\ Decoded(w, 2).kind = "KeyRotation"
        /\ writes[w][1].outcome = "Ok"
        /\ response[w] = OK

(***************************************************************************)
(* C7: a storage write that fails with an error other than the transient   *)
(* one does not end the attempt: every retained event after it, up to the  *)
(* end of the list or to a later transient error, is still decoded, and    *)
(* without a transient error the answer is 200.                            *)
(***************************************************************************)
\* The event at which the attempt stopped: the one whose write failed
\* transiently, or the end of the list.
StoppedAt(w) ==
    IF Transient(w) = {}
    THEN Len(EventsOf(w))
    ELSE writes[w][CHOOSE n \in Transient(w) : TRUE].idx

C7_OtherWriteErrorContinues ==
    \A w \in Workers : \A n \in 1..Len(writes[w]) :
        (Responded(w) /\ writes[w][n].outcome = "Other") =>
            /\ \A k \in Range(retained[w]) :
                  (writes[w][n].idx < k /\ k <= StoppedAt(w)) => k \in Range(decodes[w])
            /\ Transient(w) = {} => response[w] = OK

\* A non-transient failure of the first write, two more events written, 200.
C7_Witness ==
    \E w \in Workers :
        /\ Responded(w)
        /\ Len(writes[w]) = 3
        /\ writes[w][1].outcome = "Other"
        /\ writes[w][3].outcome = "Ok"
        /\ response[w] = OK

NaturalKey(event) ==
    CASE event.kind = "CompletedDeposit" -> <<event.id>>
      [] event.kind \in {"WithdrawalAccept", "WithdrawalReject"} -> <<event.id>>
      [] event.kind = "WithdrawalCreate" -> <<event.id, event.block_id>>
      [] event.kind = "KeyRotation" -> <<event.block_id>>

C9_OneWritePerKind ==
    \A w \in Workers :
        /\ \A k \in Range(decodes[w]) :
              ~DecodeFails(w, k) =>
                  Cardinality({ n \in 1..Len(writes[w]) : writes[w][n].idx = k }) = 1
        /\ \A n \in 1..Len(writes[w]) :
              /\ KindOfTable(writes[w][n].table) = Decoded(w, writes[w][n].idx).kind
              /\ writes[w][n].row.kind = Decoded(w, writes[w][n].idx).kind
        /\ \A t \in Tables : \A r \in BagToSet(store[t]) : r.kind = KindOfTable(t)
        /\ (Responded(w) /\ cur[w].body.parses /\ Len(EventsOf(w)) = 1
              /\ Len(writes[w]) = 1 /\ writes[w][1].outcome = "Ok") =>
              LET event == Decoded(w, 1)
              IN  /\ response[w] = OK
                  /\ \A t \in Tables :
                        Rows(store, t) = IF KindOfTable(t) = event.kind THEN 1 ELSE 0
                  /\ \A t \in Tables : \A r \in BagToSet(store[t]) :
                        /\ r.key = NaturalKey(event)
                        /\ r.txid = EventsOf(w)[1].txid
                        /\ r.block_id = cur[w].body.index_block_hash

\* A notification of a single withdrawal-accept event, written and answered 200.
C9_Witness ==
    \E w \in Workers :
        /\ Responded(w)
        /\ cur[w].body.parses
        /\ Len(EventsOf(w)) = 1
        /\ Len(writes[w]) = 1
        /\ writes[w][1].outcome = "Ok"
        /\ Decoded(w, 1).kind = "WithdrawalAccept"
        /\ response[w] = OK

(***************************************************************************)
(* C10: the node resends the identical notification after every answer     *)
(* that is not a success, whatever the number of earlier attempts (the     *)
(* handler counts none): an attempt answered 500 can only be followed by a *)
(* new attempt on the same call, and is followed by one; and if from some  *)
(* point on the storage returns no transient error, the notification is    *)
(* eventually answered 200 and is not delivered again.                     *)
(***************************************************************************)
Retrying(w) == Responded(w) /\ response[w] = INTERNAL_SERVER_ERROR

Accepted(w) == Responded(w) /\ response[w] = OK

C10_RedeliveredUntilAccepted ==
    /\ [][\A w \in Workers :
            (Retrying(w) /\ pc'[w] # pc[w]) =>
                (pc'[w] = "called" /\ cur'[w] = cur[w] /\ redelivery'[w])]_vars
    /\ \A w \in Workers : Retrying(w) ~> (pc[w] = "called" /\ redelivery[w])
    /\ \A w \in Workers :
          <>[](db = "up") => <>[](pc[w] = "idle" \/ Accepted(w))

\* A notification accepted on a redelivery, with the storage up again.
C10_Witness ==
    \E w \in Workers :
        /\ Accepted(w)
        /\ redelivery[w]
        /\ prevCommitted[w] # {}
        /\ db = "up"

(***************************************************************************)
(* C11: the registry address is set by the first call that reaches         *)
(* get_or_init, from the deployer of that call's configuration, and is     *)
(* never changed afterwards; every call, also one whose configuration      *)
(* names another deployer, takes the address of the cell and filters its   *)
(* events with it.                                                         *)
(***************************************************************************)
\* The indices of the events a filter with the address a keeps.
KeptBy(events, a) ==
    { k \in 1..Len(events) :
        /\ events[k].committed
        /\ events[k].has_contract_event
        /\ events[k].contract_identifier = a
        /\ events[k].topic = "print" }

OwnAddress(w) ==
    QualifiedContractIdentifier(cur[w].deployer, SBTC_REGISTRY_CONTRACT_NAME)

C11_AddressFixedByFirstCall ==
    /\ [][cell # <<>> => cell' = cell]_vars
    /\ [][(cell = <<>> /\ cell' # <<>>) =>
            \E w \in Workers :
                /\ pc[w] = "called"
                /\ pc'[w] = "resolved"
                /\ cell' = <<OwnAddress(w)>>]_vars
    /\ [](\A w \in Workers :
            /\ pc[w] \notin {"idle", "called"} => (cell # <<>> /\ addr[w] = cell[1])
            /\ pc[w] \in {"loop", "writing"} =>
                  Range(retained[w]) = KeptBy(EventsOf(w), cell[1]))

\* A later call whose configuration names another deployer than the cell's,
\* and which retained events of the cell's contract.
C11_Witness ==
    \E w \in Workers :
        /\ Responded(w)
        /\ cell # <<>>
        /\ cell[1] # OwnAddress(w)
        /\ retained[w] # <<>>
        /\ writes[w] # <<>>

(***************************************************************************)
(* C12: when requests reach the handler concurrently while the cell is     *)
(* unset, the cell is written once and never again, no request goes past   *)
(* get_or_init with an unset address, all requests hold the same address,  *)
(* the one of the cell, and each filters its events with it.               *)
(***************************************************************************)
Resolved(w) == pc[w] \notin {"idle", "called"}

C12_CellWrittenOnce ==
    /\ [][cell # <<>> => (cell' = cell /\ Len(cell') = 1)]_vars
    /\ [](\A w \in Workers :
            Resolved(w) => (addr[w] # <<>> /\ cell = <<addr[w]>>))
    /\ [](\A w \in Workers : \A v \in Workers :
            (Resolved(w) /\ Resolved(v)) => addr[w] = addr[v])
    /\ [](\A w \in Workers :
            (pc[w] \in {"loop", "writing"} \/ (Responded(w) /\ cur[w].body.parses))
                => Range(retained[w]) = KeptBy(EventsOf(w), addr[w]))

\* Both requests are in their loops on a first delivery, their configurations
\* name different deployers, and the second worker's request set the cell.
C12_Witness ==
    /\ \A w \in Workers : pc[w] \in {"loop", "writing"} /\ ~redelivery[w]
    /\ OwnAddress(1) # OwnAddress(2)
    /\ cell = <<OwnAddress(2)>>

(***************************************************************************)
(* C13: the retained events are a subsequence of the notification's events *)
(* in their original order; they are decoded in that order, one after the  *)
(* other; the writes of an attempt follow the same order, and a write is   *)
(* issued only when every earlier write of the attempt has returned.       *)
(***************************************************************************)
Increasing(s) == \A a \in 1..Len(s) : \A b \in 1..Len(s) : a < b => s[a] < s[b]

C13_EventsInOrder ==
    \A w \in Workers :
        /\ Increasing(retained[w])
        /\ Range(retained[w]) \subseteq 1..Len(EventsOf(w))
        /\ Len(decodes[w]) <= Len(retained[w])
        /\ decodes[w] = SubSeq(retained[w], 1, Len(decodes[w]))
        /\ Increasing([n \in 1..Len(writes[w]) |-> writes[w][n].idx])
        /\ Written(w) \subseteq Range(decodes[w])
        /\ \A n \in 1..Len(writes[w]) :
              writes[w][n].outcome = "pending" => (n = Len(writes[w]) /\ pc[w] = "writing")

\* The first and the third event are retained and written, in that order; the
\* second is dropped by the filter.
C13_Witness ==
    \E w \in Workers :
        /\ Responded(w)
        /\ retained[w] = <<1, 3>>
        /\ Len(writes[w]) = 2
        /\ writes[w][1].idx = 1 /\ writes[w][1].outcome = "Ok"
        /\ writes[w][2].idx = 3 /\ writes[w][2].outcome = "Ok"

(***************************************************************************)
(* C14: an event whose topic is not "print" is never decoded and never     *)
(* causes a storage write, also when it is committed and comes from the    *)
(* registry contract.                                                      *)
(***************************************************************************)
C14_OtherTopicNeverProcessed ==
    \A w \in Workers :
        \A k \in Range(decodes[w]) \cup Written(w) : EventsOf(w)[k].topic = "print"

\* A finished request that decoded an event and held a committed event of the
\* registry contract with another topic and a well-formed value.
C14_Witness ==
    \E w \in Workers :
        /\ Responded(w)
        /\ decodes[w] # <<>>
        /\ \E k \in 1..Len(EventsOf(w)) :
              /\ EventsOf(w)[k].committed
              /\ FromRegistry(EventsOf(w)[k])
              /\ EventsOf(w)[k].topic # "print"
              /\ EventsOf(w)[k].value.shape \in Kinds

(***************************************************************************)
(* C15: every row a request writes carries the index_block_hash of the     *)
(* request's own notification and the txid of the transaction event it was *)
(* decoded from, never the block of the notification of another request    *)
(* handled at the same time; so does every row of the store.               *)
(***************************************************************************)
BlockOf(w) == cur[w].body.index_block_hash

C15_RowsCarryOwnBlockAndTxid ==
    /\ \A w \in Workers : \A n \in 1..Len(writes[w]) :
          /\ writes[w][n].row.block_id = BlockOf(w)
          /\ writes[w][n].row.txid = EventsOf(w)[writes[w][n].idx].txid
          /\ \A v \in Workers \ {w} :
                cur[v].body.parses => writes[w][n].row.block_id # BlockOf(v)
    /\ \A t \in Tables : \A r \in BagToSet(store[t]) :
          \E w \in Workers : \E k \in 1..Len(EventsOf(w)) :
              /\ r.block_id = BlockOf(w)
              /\ r.txid = EventsOf(w)[k].txid
              /\ r.kind = EventsOf(w)[k].value.shape

\* Both requests are waiting for their second write, each after a first one
\* that was stored.
C15_Witness ==
    \A w \in Workers :
        /\ pc[w] = "writing"
        /\ Len(writes[w]) = 2
        /\ writes[w][1].outcome = "Ok"
        /\ Copies(store, writes[w][1].table, writes[w][1].row) = 1

(***************************************************************************)
(* C16: the rows of the store are never taken out or changed: when an      *)
(* attempt stops before the end of its events, by a 500 answer or by the   *)
(* caller dropping the request at a storage write, every row written for   *)
(* an earlier event is still in the store, once, and no step of the        *)
(* handler removes a row.                                                  *)
(***************************************************************************)
Abandoned(w) == pc[w] = "abandoned"

C16_CommittedWritesRemain ==
    /\ [][\A t \in Tables : \A r \in BagToSet(store[t]) :
            Copies(store', t, r) = Copies(store, t, r)]_vars
    /\ [](\A w \in Workers :
            (Retrying(w) \/ Abandoned(w)) =>
                \A n \in 1..Len(writes[w]) :
                    writes[w][n].outcome = "Ok"
                        => Copies(store, writes[w][n].table, writes[w][n].row) = 1)

\* A request dropped at its second write, which did not take effect, after a
\* first write that was stored, and before its last event.
C16_Witness ==
    \E w \in Workers :
        /\ Abandoned(w)
        /\ Len(writes[w]) = 2
        /\ writes[w][1].outcome = "Ok"
        /\ writes[w][2].outcome = "Dropped"
        /\ i[w] < Len(retained[w])
        /\ Copies(store, writes[w][1].table, writes[w][1].row) = 1

(***************************************************************************)
(* C17: in one attempt every retained event is decoded at most once and    *)
(* causes at most one storage write call, failed or not; every decoded     *)
(* event gets a write call of its own, also when it is identical to an     *)
(* earlier event of the notification; so the write calls of an attempt are *)
(* never more than the retained events.                                    *)
(***************************************************************************)
NoRepeat(s) == \A a \in 1..Len(s) : \A b \in 1..Len(s) : s[a] = s[b] => a = b

C17_AtMostOneWritePerEvent ==
    \A w \in Workers :
        /\ NoRepeat(decodes[w])
        /\ NoRepeat([n \in 1..Len(writes[w]) |-> writes[w][n].idx])
        /\ Range(decodes[w]) \subseteq Range(retained[w])
        /\ \A k \in Range(decodes[w]) : ~DecodeFails(w, k) => k \in Written(w)
        /\ Len(writes[w]) <= Len(decodes[w])
        /\ Len(decodes[w]) <= Len(retained[w])

\* Two identical events, each with a write call of its own for the same row;
\* the first call failed and was not issued again.
C17_Witness ==
    \E w \in Workers :
        /\ Responded(w)
        /\ Len(EventsOf(w)) = 2
        /\ EventsOf(w)[1] = EventsOf(w)[2]
        /\ Len(writes[w]) = 2
        /\ writes[w][1].row = writes[w][2].row
        /\ writes[w][1].outcome = "Other"
        /\ writes[w][2].outcome = "Ok"

(***************************************************************************)
(* C18: every run of the handler ends, with exactly one response, 200 or   *)
(* 500: a call that was entered reaches its return, the handler is never   *)
(* at a place outside its code path, a response is there exactly when the  *)
(* run has returned, and it does not change until the next call.           *)
(***************************************************************************)
HandlerPlaces ==
    {"idle", "called", "resolved", "deserialized", "loop", "writing", "responded"}

C18_TerminatesWithOneResponse ==
    /\ \A w \in Workers : (pc[w] = "called") ~> Responded(w)
    /\ [](\A w \in Workers :
            /\ pc[w] \in HandlerPlaces
            /\ response[w] \in {NoResponse, OK, INTERNAL_SERVER_ERROR}
            /\ Responded(w) <=> response[w] # NoResponse)
    /\ [][\A w \in Workers :
            response[w] # NoResponse =>
                (response'[w] = response[w] \/ pc'[w] = "called")]_vars

\* A run that met a decode error and a non-transient write error and ended
\* with 500 on a later transient error.
C18_Witness ==
    \E w \in Workers :
        /\ Retrying(w)
        /\ \E k \in Range(decodes[w]) : DecodeFails(w, k)
        /\ \E n \in 1..Len(writes[w]) : writes[w][n].outcome = "Other"

(***************************************************************************)
(* C19: when two notifications are handled concurrently, in every          *)
(* interleaving each request decodes and writes its own events in their    *)
(* order, and its response follows from the outcomes of its own writes     *)
(* alone: it is 500 exactly when one of its own writes failed transiently, *)
(* and without such a failure of its own it goes through all its retained  *)
(* events, whatever happened to the other request.                         *)
(***************************************************************************)
C19_RequestsIndependent ==
    \A w \in Workers :
        /\ Increasing([n \in 1..Len(writes[w]) |-> writes[w][n].idx])
        /\ Len(decodes[w]) <= Len(retained[w])
        /\ decodes[w] = SubSeq(retained[w], 1, Len(decodes[w]))
        /\ Responded(w) =>
              /\ response[w] = INTERNAL_SERVER_ERROR <=> Transient(w) # {}
              /\ Transient(w) = {} => (response[w] = OK /\ decodes[w] = retained[w])

\* On their first deliveries, the first request was answered 500 and the
\* second wrote its two events and was answered 200.
C19_Witness ==
    /\ Retrying(1) /\ ~redelivery[1]
    /\ Accepted(2) /\ ~redelivery[2]
    /\ Len(writes[2]) = 2
    /\ \A n \in 1..2 : writes[2][n].outcome = "Ok"

(***************************************************************************)
(* C20: a call moves through Received, Deserialized, Filtered,             *)
(* PerEventProcessing and Responded in that order only; nothing is decoded *)
(* or written before the whole event list has been filtered; a write is    *)
(* issued only for an event the filter retained and try_new decoded; and   *)
(* once the response is produced the call decodes and writes nothing more. *)
(***************************************************************************)
\* The moves of a call from one place of the handler to the next.
PhaseMoves ==
    { <<"idle", "called">>, <<"responded", "called">>,
      <<"called", "resolved">>,
      <<"resolved", "deserialized">>, <<"resolved", "responded">>,
      <<"deserialized", "loop">>, <<"deserialized", "responded">>,
      <<"loop", "writing">>, <<"writing", "loop">>,
      <<"loop", "responded">>, <<"writing", "responded">> }

C20_PhasesInOrder ==
    /\ [][\A w \in Workers : pc'[w] # pc[w] => <<pc[w], pc'[w]>> \in PhaseMoves]_vars
    /\ [](\A w \in Workers :
            /\ pc[w] \in {"idle", "called", "resolved", "deserialized"} =>
                  (retained[w] = <<>> /\ decodes[w] = <<>> /\ writes[w] = <<>>)
            /\ pc[w] \in {"loop", "writing"} =>
                  Range(retained[w]) = KeptBy(EventsOf(w), addr[w])
            /\ \A n \in 1..Len(writes[w]) :
                  /\ writes[w][n].idx \in Range(retained[w])
                  /\ writes[w][n].idx \in Range(decodes[w])
                  /\ ~DecodeFails(w, writes[w][n].idx))
    /\ [][\A w \in Workers :
            (response[w] # NoResponse /\ pc'[w] # "called") =>
                /\ pc'[w] = "responded"
                /\ decodes'[w] = decodes[w]
                /\ writes'[w] = writes[w]
                /\ store' = store]_vars

\* A finished call that dropped an event in the filter, met a decode error
\* and wrote an event.
C20_Witness ==
    \E w \in Workers :
        /\ Responded(w)
        /\ Len(retained[w]) < Len(EventsOf(w))
        /\ \E k \in Range(decodes[w]) : DecodeFails(w, k)
        /\ \E n \in 1..Len(writes[w]) : writes[w][n].outcome = "Ok"


(***************************************************************************)
(* C21: a transient storage error overrides everything that happened       *)
(* earlier in the attempt: when the write of an event fails transiently,   *)
(* the answer is 500, whatever became of the retained events before it,    *)
(* each of which was decoded and then written, skipped for a decode error  *)
(* or failed with another write error; no such earlier failure makes the   *)
(* answer 200.                                                             *)
(***************************************************************************)
\* What became of the retained event k in the attempt so far.
Fate(w, k) ==
    IF k \notin Range(decodes[w]) THEN "untouched"
    ELSE IF DecodeFails(w, k) THEN "DecodeError"
    ELSE writes[w][CHOOSE n \in 1..Len(writes[w]) : writes[w][n].idx = k].outcome

C21_TransientOverridesEarlier ==
    \A w \in Workers : \A n \in Transient(w) :
        /\ Retrying(w)
        /\ response[w] # OK
        /\ \A k \in Range(retained[w]) :
              k < writes[w][n].idx => Fate(w, k) \in {"Ok", "DecodeError", "Other"}

\* A decode error on the first event and a non-transient failure on the
\* second, before the transient failure of the third; the answer is 500.
C21_Witness ==
    \E w \in Workers :
        /\ retained[w] = <<1, 2, 3>>
        /\ Fate(w, 1) = "DecodeError"
        /\ Fate(w, 2) = "Other"
        /\ Fate(w, 3) = "SqlxQuery"
        /\ response[w] = INTERNAL_SERVER_ERROR


(***************************************************************************)
(* C22: when the filter retains no event (the notification has no events,  *)
(* or each of them is uncommitted, has no contract event, comes from       *)
(* another contract or has another topic), the handler answers 200 right   *)
(* after the filter, with no decode and no storage write, and the store    *)
(* stays as it was.                                                        *)
(***************************************************************************)
\* The call has filtered its events and none of them passes the four tests.
NothingRetained(w) ==
    /\ pc[w] \in {"loop", "writing", "responded"}
    /\ cur[w].body.parses
    /\ KeptBy(EventsOf(w), addr[w]) = {}

C22_NothingRetainedAccepted ==
    \A w \in Workers :
        NothingRetained(w) =>
            /\ Accepted(w)
            /\ retained[w] = <<>>
            /\ decodes[w] = <<>>
            /\ writes[w] = <<>>
            /\ StoreEmpty

\* A notification of three events, one uncommitted, one without a contract
\* event, one with another topic, answered 200.
C22_Witness ==
    \E w \in Workers :
        /\ NothingRetained(w)
        /\ Len(EventsOf(w)) = 3
        /\ \E k \in 1..3 : ~EventsOf(w)[k].committed
        /\ \E k \in 1..3 : ~EventsOf(w)[k].has_contract_event
        /\ \E k \in 1..3 : FromRegistry(EventsOf(w)[k]) /\ EventsOf(w)[k].topic # "print"
        /\ response[w] = OK


(***************************************************************************)
(* C23: a committed transaction event without a contract event is dropped  *)
(* by the filter without error: it is never retained, decoded or written;  *)
(* the events retained are those the notification would give without it,   *)
(* in the same order; and the answer follows from the writes of the other  *)
(* events alone: without a transient error all of them are processed and   *)
(* the answer is 200, also when no other event is there.                   *)
(***************************************************************************)
Bare(ev) == ev.committed /\ ~ev.has_contract_event

\* The notification's events without the bare ones.
WithoutBare(events) == SelectSeq(events, LAMBDA ev : ~Bare(ev))

\* The events at the given indices, in the order of the indices.
EventsAt(events, idxs) == [n \in 1..Len(idxs) |-> events[idxs[n]]]

C23_BareEventDropped ==
    \A w \in Workers :
        /\ \A k \in Range(retained[w]) \cup Range(decodes[w]) \cup Written(w) :
              ~Bare(EventsOf(w)[k])
        /\ (pc[w] \in {"loop", "writing"} \/ (Responded(w) /\ cur[w].body.parses)) =>
              EventsAt(EventsOf(w), retained[w])
                  = EventsAt(WithoutBare(EventsOf(w)),
                             FilterEvents(WithoutBare(EventsOf(w)), addr[w]))
        /\ (Responded(w) /\ cur[w].body.parses) =>
              /\ response[w] = INTERNAL_SERVER_ERROR <=> Transient(w) # {}
              /\ Transient(w) = {} =>
                    (response[w] = OK /\ Len(decodes[w]) = Len(retained[w]))
              /\ (\A k \in 1..Len(EventsOf(w)) : Bare(EventsOf(w)[k])) =>
                    (response[w] = OK /\ decodes[w] = <<>> /\ writes[w] = <<>>)

\* A bare event first, then two events of the registry, both written; 200.
C23_Witness ==
    \E w \in Workers :
        /\ Accepted(w)
        /\ Len(EventsOf(w)) = 3
        /\ Bare(EventsOf(w)[1])
        /\ retained[w] = <<2, 3>>
        /\ Len(writes[w]) = 2
        /\ \A n \in 1..2 : writes[w][n].outcome = "Ok"


(***************************************************************************)
(* C24: the handler keeps no progress between attempts: the redelivery of  *)
(* a notification answered 500 at event N enters the handler with the same *)
(* payload and nothing of the earlier attempt (no retained events, no      *)
(* loop position, no decode, no write); the attempt decodes the retained   *)
(* events from the first one on; and before it decodes an event that comes *)
(* after one written in an earlier attempt (all of which come before N),   *)
(* it has issued the storage write of that event again, for the same row.  *)
(***************************************************************************)
C24_NoProgressKept ==
    /\ [][\A w \in Workers :
            (Retrying(w) /\ pc'[w] = "called") =>
                /\ cur'[w] = cur[w]
                /\ redelivery'[w]
                /\ i'[w] = 1
                /\ retained'[w] = <<>>
                /\ decodes'[w] = <<>>
                /\ writes'[w] = <<>>
                /\ prevCommitted'[w] = prevCommitted[w] \cup CommittedNow(w)
                /\ \A k \in CommittedNow(w) : k < StoppedAt(w)]_vars
    /\ [](\A w \in Workers :
            redelivery[w] =>
                /\ Len(decodes[w]) <= Len(retained[w])
                /\ decodes[w] = SubSeq(retained[w], 1, Len(decodes[w]))
                /\ \A k \in prevCommitted[w] : \A m \in Range(decodes[w]) :
                      k < m =>
                          \E n \in 1..Len(writes[w]) :
                              /\ writes[w][n].idx = k
                              /\ writes[w][n].row = RowOf(Decoded(w, k))
                              /\ writes[w][n].outcome # "pending")

\* A redelivery that wrote the first event, written in an earlier attempt,
\* once more, and went on to the write of the second, not written before.
C24_Witness ==
    \E w \in Workers :
        /\ redelivery[w]
        /\ Len(retained[w]) >= 2
        /\ prevCommitted[w] = {retained[w][1]}
        /\ Len(writes[w]) = 2
        /\ writes[w][1].idx = retained[w][1]
        /\ writes[w][1].outcome = "Ok"
        /\ writes[w][2].idx = retained[w][2]


(***************************************************************************)
(* C25: the registry address is resolved before the body is deserialized:  *)
(* while the cell is unset no call has gone past get_or_init, so nothing   *)
(* was deserialized, filtered, decoded, written or answered; and from the  *)
(* moment the first call of the process is past get_or_init, whatever its  *)
(* body (unparsable, without events, with events) and whatever its answer, *)
(* the cell holds the address of that call's configuration.                *)
(***************************************************************************)
\* The worker handles the first call of the process; the node still holds
\* the second.
InFirstCall(w) ==
    /\ pc[w] # "idle"
    /\ Len(pending[w]) = 1
    /\ \A v \in Workers \ {w} : pc[v] = "idle" /\ pending[v] = <<>>

C25_CellSetBeforeDeserialization ==
    /\ cell = <<>> =>
          \A w \in Workers :
              /\ pc[w] \in {"idle", "called"}
              /\ response[w] = NoResponse
              /\ retained[w] = <<>> /\ decodes[w] = <<>> /\ writes[w] = <<>>
    /\ \A w \in Workers :
          (InFirstCall(w) /\ pc[w] # "called") => cell = <<OwnAddress(w)>>
    /\ \A w \in Workers :
          (InFirstCall(w) /\ Responded(w)) =>
              /\ cell = <<OwnAddress(w)>>
              /\ ~cur[w].body.parses => response[w] = OK
              /\ (cur[w].body.parses /\ EventsOf(w) = <<>>) => response[w] = OK

\* The first call of the process had an unparsable body and was answered
\* 200; the cell holds the address of its configuration.
C25_Witness ==
    \E w \in Workers :
        /\ InFirstCall(w)
        /\ Responded(w)
        /\ ~cur[w].body.parses
        /\ response[w] = OK
        /\ cell = <<OwnAddress(w)>>

====
